---- MODULE Spec2Model ----
(***************************************************************************)
(* A model of reorganize_state.py: the extraction of ReScript function and *)
(* type definitions from a document, the removal of duplicate names, the   *)
(* textual dependency analysis, the cycle-tolerant depth-first ordering    *)
(* and the reassembly of the file (header, type section, function section).*)
(*                                                                         *)
(* Text is a sequence of one-character strings.  Offsets are Python's:     *)
(* 0-based, and a slice content[a:b] is Slice(content, a, b).              *)
(***************************************************************************)
EXTENDS Integers, Sequences, FiniteSets, TLC

\* ------------------------------------------------------------------ text

\* The characters of Python's \s that the documents use.
IsSpace(c) == c \in {" ", "\n", "\t"}

\* The characters of Python's \w that the documents use.
IsWord(c) == c \in {"a", "b", "c", "d", "e", "f", "g", "h", "i", "j", "k", "l", "m",
                    "n", "o", "p", "q", "r", "s", "t", "u", "v", "w", "x", "y", "z",
                    "M", "_", "0", "1"}

\* content[a:b]
Slice(s, a, b) == IF b <= a THEN <<>> ELSE SubSeq(s, a + 1, b)

\* content.startswith(t, i)
HasAt(s, i, t) == i + Len(t) <= Len(s) /\ Slice(s, i, i + Len(t)) = t

\* content[i] == c, false past the end
CharAt(s, i, c) == i < Len(s) /\ s[i + 1] = c

\* The offset after the longest run of \s starting at i (the greedy \s*).
RECURSIVE SkipSpace(_, _)
SkipSpace(s, i) == IF i < Len(s) /\ IsSpace(s[i + 1]) THEN SkipSpace(s, i + 1) ELSE i

\* The offset after the longest run of \w starting at i (the greedy \w+).
RECURSIVE SkipWord(_, _)
SkipWord(s, i) == IF i < Len(s) /\ IsWord(s[i + 1]) THEN SkipWord(s, i + 1) ELSE i

\* content.find(t, i): the least offset >= i where t occurs, or -1.
RECURSIVE Find(_, _, _)
Find(s, t, i) ==
    IF i + Len(t) > Len(s) THEN -1
    ELSE IF HasAt(s, i, t) THEN i
    ELSE Find(s, t, i + 1)

\* str.strip(): the text without its leading and trailing whitespace.
RECURSIVE RStripEnd(_, _)
RStripEnd(s, j) == IF j > 0 /\ IsSpace(s[j]) THEN RStripEnd(s, j - 1) ELSE j

Strip(s) == Slice(s, SkipSpace(s, 0), RStripEnd(s, Len(s)))

\* str.split('\n'): the lines of the text, at least one.
RECURSIVE SplitLines(_)
SplitLines(s) ==
    LET n == Find(s, <<"\n">>, 0)
    IN  IF n = -1 THEN <<s>>
        ELSE <<Slice(s, 0, n)>> \o SplitLines(Slice(s, n + 1, Len(s)))

\* '\n'.join(lines)
RECURSIVE JoinWith(_, _)
JoinWith(sep, parts) ==
    IF parts = <<>> THEN <<>>
    ELSE IF Len(parts) = 1 THEN parts[1]
    ELSE parts[1] \o sep \o JoinWith(sep, Tail(parts))

\* ------------------------------------------------------- extract_functions

kw_let == <<"l", "e", "t">>
kw_type == <<"t", "y", "p", "e">>

\* func_pattern, r'let\s+(\w+)\s*=\s*\([^)]*\)\s*:\s*[^=]+=>\s*\{', tried at
\* offset p: the offsets the match passes, ok iff the pattern matches there.
\* Every class is followed by a character outside it, so the greedy runs are
\* the only way to match; \s*[^=]+ needs one character before the first '='.
FuncMatch(s, p) ==
    LET nameStart == SkipSpace(s, p + 3)
        nameEnd   == SkipWord(s, nameStart)
        eq        == SkipSpace(s, nameEnd)
        lpar      == SkipSpace(s, eq + 1)
        rpar      == Find(s, <<")">>, lpar + 1)
        colon     == SkipSpace(s, rpar + 1)
        arrow     == Find(s, <<"=">>, colon + 1)
        brace     == SkipSpace(s, arrow + 2)
        ok        == /\ HasAt(s, p, kw_let)
                     /\ nameStart > p + 3
                     /\ nameEnd > nameStart
                     /\ CharAt(s, eq, "=")
                     /\ CharAt(s, lpar, "(")
                     /\ rpar # -1
                     /\ CharAt(s, colon, ":")
                     /\ arrow # -1
                     /\ arrow > colon + 1
                     /\ CharAt(s, arrow + 1, ">")
                     /\ CharAt(s, brace, "{")
    IN  [ok |-> ok, name |-> IF ok THEN Slice(s, nameStart, nameEnd) ELSE <<>>,
         end |-> IF ok THEN brace + 1 ELSE -1]

\* type_pattern, r'type\s+(\w+)\s*=', tried at offset p.
TypeMatch(s, p) ==
    LET nameStart == SkipSpace(s, p + 4)
        nameEnd   == SkipWord(s, nameStart)
        eq        == SkipSpace(s, nameEnd)
        ok        == /\ HasAt(s, p, kw_type)
                     /\ nameStart > p + 4
                     /\ nameEnd > nameStart
                     /\ CharAt(s, eq, "=")
    IN  [ok |-> ok, name |-> IF ok THEN Slice(s, nameStart, nameEnd) ELSE <<>>,
         end |-> IF ok THEN eq + 1 ELSE -1]

\* The brace-counting loop over content[start_pos:]: the end_pos it leaves.
\* end_pos starts as start_pos and is only set when the count returns to 0.
RECURSIVE BraceScan(_, _, _, _, _)
BraceScan(s, i, brace_count, in_function, start_pos) ==
    IF i >= Len(s) THEN start_pos
    ELSE IF s[i + 1] = "{" THEN BraceScan(s, i + 1, brace_count + 1, TRUE, start_pos)
    ELSE IF s[i + 1] = "}"
         THEN IF in_function /\ brace_count - 1 = 0 THEN i + 1
              ELSE BraceScan(s, i + 1, brace_count - 1, in_function, start_pos)
    ELSE BraceScan(s, i + 1, brace_count, in_function, start_pos)

FuncEnd(s, start_pos) == BraceScan(s, start_pos, 0, FALSE, start_pos)

\* re.finditer(func_pattern, content): the matches from offset p on, leftmost
\* first, each search resuming where the previous match ended.
RECURSIVE FuncEntries(_, _)
FuncEntries(s, p) ==
    IF p >= Len(s) THEN <<>>
    ELSE LET m == FuncMatch(s, p)
         IN  IF m.ok
             THEN LET end_pos == FuncEnd(s, p)
                  IN  <<[name |-> m.name, def |-> Slice(s, p, end_pos),
                         start |-> p, end |-> end_pos]>> \o FuncEntries(s, m.end)
             ELSE FuncEntries(s, p + 1)

\* The end of a type definition: the next blank line, or the end of the text.
TypeEnd(s, start_pos) ==
    LET e == Find(s, <<"\n", "\n">>, start_pos)
    IN  IF e = -1 THEN Len(s) ELSE e

RECURSIVE TypeEntries(_, _)
TypeEntries(s, p) ==
    IF p >= Len(s) THEN <<>>
    ELSE LET m == TypeMatch(s, p)
         IN  IF m.ok
             THEN LET end_pos == TypeEnd(s, p)
                  IN  <<[name |-> m.name, def |-> Slice(s, p, end_pos),
                         start |-> p, end |-> end_pos]>> \o TypeEntries(s, m.end)
             ELSE TypeEntries(s, p + 1)

\* sorted(functions, key=lambda x: x[2]): a stable sort by start offset.
RECURSIVE InsertByStart(_, _)
InsertByStart(sorted, e) ==
    IF sorted = <<>> THEN <<e>>
    ELSE IF Head(sorted).start <= e.start THEN <<Head(sorted)>> \o InsertByStart(Tail(sorted), e)
    ELSE <<e>> \o sorted

RECURSIVE SortByStart(_)
SortByStart(entries) ==
    IF entries = <<>> THEN <<>>
    ELSE InsertByStart(SortByStart(SubSeq(entries, 1, Len(entries) - 1)),
                       entries[Len(entries)])

extract_functions(content) ==
    SortByStart(FuncEntries(content, 0) \o TypeEntries(content, 0))


\* ------------------------------------------------- the header of the file

\* line.startswith(t)
StartsWith(line, t) == HasAt(line, 0, t)

\* The loop over the lines that collects header_lines: comment, blank and
\* "open" lines are kept, the first line starting with "let " or "type " ends
\* the loop, every other line is kept too.
RECURSIVE HeaderLines(_)
HeaderLines(lines) ==
    IF lines = <<>> THEN <<>>
    ELSE LET line == Head(lines)
         IN  IF \/ StartsWith(line, <<"/", "/">>)
                \/ Strip(line) = <<>>
                \/ StartsWith(line, <<"o", "p", "e", "n", " ">>)
             THEN <<line>> \o HeaderLines(Tail(lines))
             ELSE IF \/ StartsWith(line, <<"l", "e", "t", " ">>)
                     \/ StartsWith(line, <<"t", "y", "p", "e", " ">>)
             THEN <<>>
             ELSE <<line>> \o HeaderLines(Tail(lines))

Header(content) == JoinWith(<<"\n">>, HeaderLines(SplitLines(content)))

\* ------------------------------------------------------ find_dependencies

\* A mutant: the name is searched as a substring, without the \b anchors.
SubstringSearch(func_name, func_def) == Find(func_def, func_name, 0) # -1

\* re.search(rf'\b{func_name}\b', func_def): the name occurs with no word
\* character right before it and none right after it.
WordSearch(func_name, func_def) ==
    \E i \in 0..(Len(func_def) - Len(func_name)) :
        /\ HasAt(func_def, i, func_name)
        /\ (i = 0 \/ ~IsWord(func_def[i]))
        /\ (i + Len(func_name) = Len(func_def) \/ ~IsWord(func_def[i + Len(func_name) + 1]))

find_dependencies(func_def, all_functions) ==
    {func_name \in all_functions : WordSearch(func_name, func_def)}

\* definition.strip().startswith('type ')
IsTypeDef(definition) == StartsWith(Strip(definition), <<"t", "y", "p", "e", " ">>)

\* ------------------------------------------------------------- the output

Banner == <<"/", "/", " ">> \o [i \in 1..77 |-> "="] \o <<"\n">>

TypeTitle == <<"/", "/", " ", "T", "Y", "P", "E", " ", "D", "E", "F", "I", "N", "I", "T", "I", "O", "N", "S", "\n">>

FunctionTitle == <<"/", "/", " ", "F", "U", "N", "C", "T", "I", "O", "N", " ", "D", "E", "F", "I", "N", "I", "T", "I", "O", "N", "S", " ", "(", "o", "r", "d", "e", "r", "e", "d", " ", "b", "y", " ", "d", "e", "p", "e", "n", "d", "e", "n", "c", "i", "e", "s", ")", "\n">>

\* new_content as the file is reconstructed: the header, then each non-empty
\* section under its banner.
NewContent(hdr, type_defs, function_defs) ==
    hdr \o <<"\n", "\n">>
    \o (IF type_defs # <<>>
        THEN Banner \o TypeTitle \o Banner \o <<"\n">>
             \o JoinWith(<<"\n", "\n">>, type_defs) \o <<"\n", "\n">>
        ELSE <<>>)
    \o (IF function_defs # <<>>
        THEN Banner \o FunctionTitle \o Banner \o <<"\n">>
             \o JoinWith(<<"\n", "\n">>, function_defs) \o <<"\n">>
        ELSE <<>>)

\* ---------------------------------------------------------- the documents

\* The most declarations in a document of the text family.
MaxDecls == 2

\* The declarations of a document of the ordering family.
MaxOrdered == 3

\* The most references between the declarations of an ordering document, a
\* repeated definition counting as one.
MaxMentions == 3

\* The most declarations handed to topological_sort on its own.
MaxNodes == 3

\* The most members of the dependency sets handed to topological_sort.
MaxEdges == 4

name_a == <<"a">>
name_b == <<"b">>
name_c == <<"c">>
name_d == <<"d">>
name_e == <<"e">>

\* Texts that may precede the first declaration: nothing, a comment line, an
\* open directive and a blank line, a value binding that is no function, and
\* an indentation of the first declaration.
Headers == { <<>>,
             <<"/", "/", " ", "h", "\n">>,
             <<"o", "p", "e", "n", " ", "M", "\n", "\n">>,
             <<"l", "e", "t", " ", "x", " ", "=", " ", "1", "\n">>,
             <<" ", " ">> }

\* The declaration shapes of the text family, for a name n.
PlainFunction(n) ==
    <<"l", "e", "t", " ">> \o n \o <<" ", "=", " ", "(", ")", " ", ":", " ", "i", " ", "=", ">", " ", "{", " ", "a", "b", " ", "}">>

BraceParamFunction(n) ==
    <<"l", "e", "t", " ">> \o n \o <<" ", "=", " ", "(", "p", ":", " ", "{", "x", "}", ")", " ", ":", " ", "i", " ", "=", ">", " ", "{", " ", "a", " ", "}">>

NestedBlockFunction(n) ==
    <<"l", "e", "t", " ">> \o n \o <<" ", "=", " ", "(", ")", " ", ":", " ", "i", " ", "=", ">", " ", "{", " ", "b", " ", "{", " ", "}", " ", "}">>

UnclosedFunction(n) ==
    <<"l", "e", "t", " ">> \o n \o <<" ", "=", " ", "(", ")", " ", ":", " ", "i", " ", "=", ">", " ", "{", " ", "1">>

RecordType(n) ==
    <<"t", "y", "p", "e", " ">> \o n \o <<" ", "=", " ", "{", " ", "b", " ", "}">>

TabbedType(n) ==
    <<"t", "y", "p", "e", "\t">> \o n \o <<" ", "=", " ", "a">>

TextDecls ==
    UNION { { PlainFunction(n), BraceParamFunction(n), NestedBlockFunction(n),
              UnclosedFunction(n), RecordType(n), TabbedType(n) } : n \in {name_a, name_b} }

Separators == { <<"\n", "\n">>, <<"\n">> }

\* k declarations with the separator sep between them.
RECURSIVE DeclRuns(_, _)
DeclRuns(k, sep) ==
    IF k = 1 THEN TextDecls
    ELSE { d \o sep \o rest : d \in TextDecls, rest \in DeclRuns(k - 1, sep) }

TextDocuments ==
    { h \o body : h \in Headers,
                  body \in UNION { DeclRuns(k, sep) : k \in 1..MaxDecls, sep \in Separators } }

\* The ordering family: MaxOrdered declarations with distinct names, each a
\* type or a function whose body names other declarations (at most
\* MaxMentions references in all), then possibly a second definition of the
\* first name, which counts as a reference.
OrderNames == SubSeq(<<name_a, name_b, name_c, name_d, name_e>>, 1, MaxOrdered)

RECURSIVE MentionText(_, _, _)
MentionText(i, j, edges) ==
    IF j > Len(OrderNames) THEN <<>>
    ELSE (IF <<i, j>> \in edges THEN OrderNames[j] \o <<" ">> ELSE <<>>)
         \o MentionText(i, j + 1, edges)

OrderedDecl(i, isType, edges) ==
    IF isType
    THEN <<"t", "y", "p", "e", " ">> \o OrderNames[i] \o <<" ", "=", " ", "i", " ">>
         \o MentionText(i, 1, edges)
    ELSE <<"l", "e", "t", " ">> \o OrderNames[i]
         \o <<" ", "=", " ", "(", ")", " ", ":", " ", "i", " ", "=", ">", " ", "{", " ">>
         \o MentionText(i, 1, edges) \o <<"}">>

RECURSIVE OrderedBody(_, _, _)
OrderedBody(i, kinds, edges) ==
    IF i > Len(OrderNames) THEN <<>>
    ELSE OrderedDecl(i, kinds[i], edges) \o <<"\n", "\n">> \o OrderedBody(i + 1, kinds, edges)

PossibleEdges == { e \in (1..MaxOrdered) \X (1..MaxOrdered) : e[1] # e[2] }

\* A second definition of the first name, or nothing.
RepeatedDefinition == <<"l", "e", "t", " ", "a", " ", "=", " ", "(", ")", " ", ":", " ", "i", " ", "=", ">", " ", "{", "}">>

OrderDocuments ==
    { <<"/", "/", " ", "h", "\n">> \o OrderedBody(1, kinds, edges) \o tail :
        kinds \in [1..MaxOrdered -> BOOLEAN],
        <<edges, tail>> \in
            { p \in (SUBSET PossibleEdges) \X {<<>>, RepeatedDefinition} :
                Cardinality(p[1]) + (IF p[2] = <<>> THEN 0 ELSE 1) <= MaxMentions } }

\* --------------------------------------------------------------- the state

VARIABLES
    content,              \* the text read from the file
    pc,                   \* where reorganize_state_file is
    header,               \* the header text
    extracted_functions,  \* the list extract_functions returned
    idx,                  \* the index of the loop in progress
    unique_functions,     \* name -> definition
    func_order,           \* the keys of unique_functions in insertion order
    seen_names,           \* the names met so far
    removed,              \* the names logged as "Removing duplicate"
    dependencies,         \* name -> set of names
    visited,              \* topological_sort: done
    temp_visited,         \* topological_sort: in progress
    result,               \* topological_sort: the order built
    stack,                \* the calls of visit in progress, innermost last
    sorted_names,         \* what topological_sort returned
    types,                \* the names whose definitions went to the type section
    functions,            \* the names whose definitions went to the function section
    new_content,          \* the text written back
    pass,                 \* 1: the run on the document, 2: the run on its own order
    first_order           \* the declaration order the first run produced

vars == <<content, pc, header, extracted_functions, idx, unique_functions, func_order,
          seen_names, removed, dependencies, visited, temp_visited, result, stack,
          sorted_names, types, functions, new_content, pass, first_order>>

textVars == <<content, header, extracted_functions>>
dedupVars == <<unique_functions, func_order, seen_names, removed>>
sortVars == <<visited, temp_visited, result, stack>>
outVars == <<types, functions, new_content>>

EmptyMap == [n \in {} |-> <<>>]

Range(seq) == {seq[i] : i \in 1..Len(seq)}

Top == stack[Len(stack)]

Pop == SubSeq(stack, 1, Len(stack) - 1)

\* dependencies.get(func_name, set())
DepsOf(func_name) ==
    IF func_name \in DOMAIN dependencies THEN dependencies[func_name] ELSE {}

InitWith(doc) ==
    /\ content = doc
    /\ pc = "read"
    /\ header = <<>>
    /\ extracted_functions = <<>>
    /\ idx = 1
    /\ unique_functions = EmptyMap
    /\ func_order = <<>>
    /\ seen_names = {}
    /\ removed = <<>>
    /\ dependencies = EmptyMap
    /\ visited = {}
    /\ temp_visited = {}
    /\ result = <<>>
    /\ stack = <<>>
    /\ sorted_names = <<>>
    /\ types = <<>>
    /\ functions = <<>>
    /\ new_content = <<>>
    /\ pass = 1
    /\ first_order = <<>>

Init == \E doc \in TextDocuments : InitWith(doc)

InitOrder == \E doc \in OrderDocuments : InitWith(doc)

\* ---------------------------------------------------- reorganize_state_file

\* The file is read, the header collected and the definitions extracted.
Extract ==
    /\ pc = "read"
    /\ header' = Header(content)
    /\ extracted_functions' = extract_functions(content)
    /\ pc' = "dedup"
    /\ idx' = 1
    /\ UNCHANGED <<content, dedupVars, dependencies, sortVars, sorted_names, outVars,
                   pass, first_order>>

\* A name not seen before: its definition is kept.
KeepFirst ==
    /\ pc = "dedup"
    /\ idx <= Len(extracted_functions)
    /\ LET e == extracted_functions[idx]
       IN  /\ e.name \notin seen_names
           /\ unique_functions' = (e.name :> e.def) @@ unique_functions
           /\ func_order' = Append(func_order, e.name)
           /\ seen_names' = seen_names \cup {e.name}
    /\ idx' = idx + 1
    /\ UNCHANGED <<textVars, pc, removed, dependencies, sortVars, sorted_names, outVars,
                   pass, first_order>>

\* A mutant: the definition of a name seen before replaces the one kept.
RemoveDuplicateOverwrite ==
    /\ pc = "dedup"
    /\ idx <= Len(extracted_functions)
    /\ LET e == extracted_functions[idx]
       IN  /\ e.name \in seen_names
           /\ unique_functions' = (e.name :> e.def) @@ unique_functions
           /\ removed' = Append(removed, e.name)
    /\ idx' = idx + 1
    /\ UNCHANGED <<textVars, pc, func_order, seen_names, dependencies,
                   sortVars, sorted_names, outVars, pass, first_order>>

\* A name seen before: the definition is dropped and the name logged.
RemoveDuplicate ==
    /\ pc = "dedup"
    /\ idx <= Len(extracted_functions)
    /\ extracted_functions[idx].name \in seen_names
    /\ removed' = Append(removed, extracted_functions[idx].name)
    /\ idx' = idx + 1
    /\ UNCHANGED <<textVars, pc, unique_functions, func_order, seen_names, dependencies,
                   sortVars, sorted_names, outVars, pass, first_order>>

DedupDone ==
    /\ pc = "dedup"
    /\ idx > Len(extracted_functions)
    /\ pc' = "analyze"
    /\ idx' = 1
    /\ UNCHANGED <<textVars, dedupVars, dependencies, sortVars, sorted_names, outVars,
                   pass, first_order>>

\* The dependencies of the next kept definition.
Analyze ==
    /\ pc = "analyze"
    /\ idx <= Len(func_order)
    /\ LET func_name == func_order[idx]
       IN  dependencies' =
               (func_name :> find_dependencies(unique_functions[func_name],
                                               DOMAIN unique_functions))
               @@ dependencies
    /\ idx' = idx + 1
    /\ UNCHANGED <<textVars, pc, dedupVars, sortVars, sorted_names, outVars,
                   pass, first_order>>

\* topological_sort is called: its sets and its result start empty.
AnalyzeDone ==
    /\ pc = "analyze"
    /\ idx > Len(func_order)
    /\ pc' = "sort"
    /\ idx' = 1
    /\ visited' = {}
    /\ temp_visited' = {}
    /\ result' = <<>>
    /\ stack' = <<>>
    /\ UNCHANGED <<textVars, dedupVars, dependencies, sorted_names, outVars,
                   pass, first_order>>

\* --------------------------------------------------------- topological_sort

\* The body of visit(func_name) once past its two guards: the name is marked
\* in progress and its dependencies wait to be iterated.  A Python set of
\* strings has no fixed iteration order, so the frame holds the set and each
\* step takes any element left.
Enter(func_name, frames) ==
    /\ temp_visited' = temp_visited \cup {func_name}
    /\ stack' = Append(frames, [func_name |-> func_name, todo |-> DepsOf(func_name)])

\* The frame on top with dep taken out of what is left to iterate.
Advance(dep) ==
    Append(Pop, [func_name |-> Top.func_name, todo |-> Top.todo \ {dep}])

\* The outer loop meets a name already visited.
OuterSkip ==
    /\ pc = "sort"
    /\ stack = <<>>
    /\ idx <= Len(func_order)
    /\ func_order[idx] \in visited
    /\ idx' = idx + 1
    /\ UNCHANGED <<textVars, pc, dedupVars, dependencies, sortVars, sorted_names, outVars,
                   pass, first_order>>

\* The outer loop calls visit on a name not visited yet.
OuterVisit ==
    /\ pc = "sort"
    /\ stack = <<>>
    /\ idx <= Len(func_order)
    /\ func_order[idx] \notin visited
    /\ func_order[idx] \notin temp_visited
    /\ Enter(func_order[idx], stack)
    /\ idx' = idx + 1
    /\ UNCHANGED <<textVars, pc, dedupVars, dependencies, visited, result, sorted_names,
                   outVars, pass, first_order>>

\* A dependency that is no key of functions, or the name itself: not visited.
DepSkip ==
    /\ pc = "sort"
    /\ stack # <<>>
    /\ \E dep \in Top.todo :
        /\ (dep \notin DOMAIN unique_functions \/ dep = Top.func_name)
        /\ stack' = Advance(dep)
    /\ UNCHANGED <<textVars, pc, idx, dedupVars, dependencies, visited, temp_visited, result,
                   sorted_names, outVars, pass, first_order>>

\* A mutant: meeting a name in progress raises.
DepInProgressRaise ==
    /\ pc = "sort"
    /\ stack # <<>>
    /\ \E dep \in Top.todo :
        /\ dep \in DOMAIN unique_functions
        /\ dep # Top.func_name
        /\ dep \in temp_visited
    /\ pc' = "raised"
    /\ UNCHANGED <<textVars, idx, dedupVars, dependencies, sortVars, sorted_names, outVars,
                   pass, first_order>>

\* visit(dep) on a name in progress (a circular dependency): it returns at once.
DepInProgress ==
    /\ pc = "sort"
    /\ stack # <<>>
    /\ \E dep \in Top.todo :
        /\ dep \in DOMAIN unique_functions
        /\ dep # Top.func_name
        /\ dep \in temp_visited
        /\ stack' = Advance(dep)
    /\ UNCHANGED <<textVars, pc, idx, dedupVars, dependencies, visited, temp_visited, result,
                   sorted_names, outVars, pass, first_order>>

\* A mutant: a name already visited is visited again.
DepVisitedAgain ==
    /\ pc = "sort"
    /\ stack # <<>>
    /\ \E dep \in Top.todo :
        /\ dep \in DOMAIN unique_functions
        /\ dep # Top.func_name
        /\ dep \notin temp_visited
        /\ dep \in visited
        /\ Enter(dep, Advance(dep))
    /\ UNCHANGED <<textVars, pc, idx, dedupVars, dependencies, visited, result,
                   sorted_names, outVars, pass, first_order>>

\* visit(dep) on a name already visited: it returns at once.
DepVisited ==
    /\ pc = "sort"
    /\ stack # <<>>
    /\ \E dep \in Top.todo :
        /\ dep \in DOMAIN unique_functions
        /\ dep # Top.func_name
        /\ dep \notin temp_visited
        /\ dep \in visited
        /\ stack' = Advance(dep)
    /\ UNCHANGED <<textVars, pc, idx, dedupVars, dependencies, visited, temp_visited, result,
                   sorted_names, outVars, pass, first_order>>

\* A mutant: the dependency is not visited before the name that needs it.
DepVisitNever ==
    /\ pc = "sort"
    /\ stack # <<>>
    /\ \E dep \in Top.todo :
        /\ dep \in DOMAIN unique_functions
        /\ dep # Top.func_name
        /\ dep \notin temp_visited
        /\ dep \notin visited
        /\ stack' = Advance(dep)
    /\ UNCHANGED <<textVars, pc, idx, dedupVars, dependencies, visited, temp_visited, result,
                   sorted_names, outVars, pass, first_order>>

\* visit(dep) on a name not met yet: the recursive call.
DepVisit ==
    /\ pc = "sort"
    /\ stack # <<>>
    /\ \E dep \in Top.todo :
        /\ dep \in DOMAIN unique_functions
        /\ dep # Top.func_name
        /\ dep \notin temp_visited
        /\ dep \notin visited
        /\ Enter(dep, Advance(dep))
    /\ UNCHANGED <<textVars, pc, idx, dedupVars, dependencies, visited, result,
                   sorted_names, outVars, pass, first_order>>

\* A mutant: the name is put at the front of the result.
VisitFinishPrepend ==
    /\ pc = "sort"
    /\ stack # <<>>
    /\ Top.todo = {}
    /\ temp_visited' = temp_visited \ {Top.func_name}
    /\ visited' = visited \cup {Top.func_name}
    /\ result' = <<Top.func_name>> \o result
    /\ stack' = Pop
    /\ UNCHANGED <<textVars, pc, idx, dedupVars, dependencies, sorted_names, outVars,
                   pass, first_order>>

\* Every dependency has been iterated: the name leaves temp_visited, is marked
\* visited and is appended to the result, and visit returns.
VisitFinish ==
    /\ pc = "sort"
    /\ stack # <<>>
    /\ Top.todo = {}
    /\ temp_visited' = temp_visited \ {Top.func_name}
    /\ visited' = visited \cup {Top.func_name}
    /\ result' = Append(result, Top.func_name)
    /\ stack' = Pop
    /\ UNCHANGED <<textVars, pc, idx, dedupVars, dependencies, sorted_names, outVars,
                   pass, first_order>>

\* The outer loop is over: topological_sort returns result.
SortReturn ==
    /\ pc = "sort"
    /\ stack = <<>>
    /\ idx > Len(func_order)
    /\ sorted_names' = result
    /\ pc' = "separate"
    /\ idx' = 1
    /\ UNCHANGED <<textVars, dedupVars, dependencies, sortVars, outVars, pass, first_order>>

\* ------------------------------------------------------------ the assembly

\* A definition that starts with "type " goes to the types.
AppendType ==
    /\ pc = "separate"
    /\ idx <= Len(sorted_names)
    /\ IsTypeDef(unique_functions[sorted_names[idx]])
    /\ types' = Append(types, sorted_names[idx])
    /\ idx' = idx + 1
    /\ UNCHANGED <<textVars, pc, dedupVars, dependencies, sortVars, sorted_names, functions,
                   new_content, pass, first_order>>

\* A mutant: the definition is put in front of the functions collected so far.
PrependFunction ==
    /\ pc = "separate"
    /\ idx <= Len(sorted_names)
    /\ ~IsTypeDef(unique_functions[sorted_names[idx]])
    /\ functions' = <<sorted_names[idx]>> \o functions
    /\ idx' = idx + 1
    /\ UNCHANGED <<textVars, pc, dedupVars, dependencies, sortVars, sorted_names, types,
                   new_content, pass, first_order>>

\* Any other definition goes to the functions.
AppendFunction ==
    /\ pc = "separate"
    /\ idx <= Len(sorted_names)
    /\ ~IsTypeDef(unique_functions[sorted_names[idx]])
    /\ functions' = Append(functions, sorted_names[idx])
    /\ idx' = idx + 1
    /\ UNCHANGED <<textVars, pc, dedupVars, dependencies, sortVars, sorted_names, types,
                   new_content, pass, first_order>>

\* The definitions a section holds, in its order.
Definitions(section) == [i \in 1..Len(section) |-> unique_functions[section[i]]]

\* The file is reconstructed and written.
Reconstruct ==
    /\ pc = "separate"
    /\ idx > Len(sorted_names)
    /\ new_content' = NewContent(header, Definitions(types), Definitions(functions))
    /\ pc' = "done"
    /\ UNCHANGED <<textVars, idx, dedupVars, dependencies, sortVars, sorted_names, types,
                   functions, pass, first_order>>

\* The declaration order of the output: the type section, then the functions.
OutputOrder == types \o functions

\* The number reported as "Removed ... duplicates".
DuplicatesRemoved == Len(extracted_functions) - Cardinality(DOMAIN unique_functions)

\* The ordering is run again on the declaration order it produced, with the
\* same definitions and the same dependency sets.
Rerun ==
    /\ pc = "done"
    /\ pass = 1
    /\ pass' = 2
    /\ first_order' = OutputOrder
    /\ func_order' = OutputOrder
    /\ visited' = {}
    /\ temp_visited' = {}
    /\ result' = <<>>
    /\ stack' = <<>>
    /\ sorted_names' = <<>>
    /\ types' = <<>>
    /\ functions' = <<>>
    /\ new_content' = <<>>
    /\ pc' = "sort"
    /\ idx' = 1
    /\ UNCHANGED <<textVars, unique_functions, seen_names, removed, dependencies>>

Sort ==
    \/ OuterSkip
    \/ OuterVisit
    \/ DepSkip
    \/ DepInProgress
    \/ DepVisited
    \/ DepVisit
    \/ VisitFinish
    \/ SortReturn

Next ==
    \/ Extract
    \/ KeepFirst
    \/ RemoveDuplicate
    \/ DedupDone
    \/ Analyze
    \/ AnalyzeDone
    \/ OuterSkip
    \/ OuterVisit
    \/ DepSkip
    \/ DepInProgress
    \/ DepVisited
    \/ DepVisit
    \/ VisitFinish
    \/ SortReturn
    \/ AppendType
    \/ AppendFunction
    \/ Reconstruct
    \/ Rerun

Spec == Init /\ [][Next]_vars

SpecOrder == InitOrder /\ [][Next]_vars

\* ------------------------------------------- topological_sort on its own

\* The names handed to topological_sort, and a name that is no declaration.
NodeNames == <<name_a, name_b, name_c, name_d, name_e>>

Dangling == <<"z">>

\* The name an index stands for: a key of functions, or the undeclared name.
Target(keys, j) == IF j <= Len(keys) THEN keys[j] ELSE Dangling

\* functions is any dictionary of up to MaxNodes names and dependencies any
\* mapping from them to sets of names, declared or not, self included, with
\* at most MaxEdges members in all; a name without dependencies may have no
\* entry at all.
InitSort ==
    \E k \in 1..MaxNodes :
        LET keys == SubSeq(NodeNames, 1, k)
        IN  \E edges \in { E \in SUBSET ((1..k) \X (1..(k + 1))) : Cardinality(E) <= MaxEdges } :
            \E present \in { Range(keys),
                             {keys[i] : i \in {e[1] : e \in edges}} } :
                /\ content = <<>>
                /\ pc = "sort"
                /\ header = <<>>
                /\ extracted_functions = <<>>
                /\ idx = 1
                /\ unique_functions = [n \in Range(keys) |-> <<>>]
                /\ func_order = keys
                /\ seen_names = Range(keys)
                /\ removed = <<>>
                /\ dependencies =
                       [n \in present |->
                           {Target(keys, e[2]) : e \in {d \in edges : keys[d[1]] = n}}]
                /\ visited = {}
                /\ temp_visited = {}
                /\ result = <<>>
                /\ stack = <<>>
                /\ sorted_names = <<>>
                /\ types = <<>>
                /\ functions = <<>>
                /\ new_content = <<>>
                /\ pass = 1
                /\ first_order = <<>>

SpecSort == InitSort /\ [][Sort]_vars

\* The interpreter runs the call to its end: a step that can be taken is taken.
SpecSortFair == InitSort /\ [][Sort]_vars /\ WF_vars(Sort)

\* ------------------------------------------------------------- the claims

\* The declarations kept after the removal of duplicates.
Retained == DOMAIN unique_functions

\* d depends on n: an edge of the dependency graph between two declarations.
DependsOn(d, n) == d \in Retained /\ n \in Retained /\ d # n /\ n \in DepsOf(d)

RECURSIVE Closure(_)
Closure(S) ==
    LET T == S \cup {m \in Retained : \E x \in S : DependsOn(x, m)}
    IN  IF T = S THEN S ELSE Closure(T)

\* The declarations a dependency path leads to from n.
Reach(n) == Closure({m \in Retained : DependsOn(n, m)})

\* The edge d -> n lies on no cycle.
OffCycle(d, n) == DependsOn(d, n) /\ d \notin Reach(n)

Acyclic == \A n \in Retained : n \notin Reach(n)

\* x occurs before y in the sequence.
Before(seq, x, y) == \E i, j \in 1..Len(seq) : i < j /\ seq[i] = x /\ seq[j] = y

\* The names of the extracted declarations, in the order of the document.
ExtractedNames == [i \in 1..Len(extracted_functions) |-> extracted_functions[i].name]

\* C1: the list topological_sort returns places N before D for every two
\* declarations D, N where N is in D's dependency set and no dependency path
\* leads from N back to D.
C1_DependenciesFirst ==
    pc = "separate" =>
        \A d, n \in Retained : OffCycle(d, n) => Before(sorted_names, n, d)

\* C1 witness: the sort returned on a graph that has a cycle and an edge off
\* every cycle whose target came after its source in the input.
C1_Witness ==
    /\ pc = "separate"
    /\ ~Acyclic
    /\ \E d, n \in Retained : OffCycle(d, n) /\ Before(func_order, d, n)

\* C3: the list topological_sort returns is a permutation of the declaration
\* names: each occurs exactly once and no other name occurs.
C3_Permutation ==
    pc = "separate" =>
        /\ Len(sorted_names) = Cardinality(Retained)
        /\ Range(sorted_names) = Retained

\* C3 witness: the sort returned on a graph with a cycle and a dependency that
\* is no declaration.
C3_Witness ==
    /\ pc = "separate"
    /\ ~Acyclic
    /\ \E d \in Retained : Dangling \in DepsOf(d)
    /\ Len(sorted_names) = MaxNodes

\* C7: topological_sort terminates on every graph, cycles and self-edges
\* included: the call returns with every declaration marked done and none
\* left in progress.
C7_Terminates ==
    <>(pc = "separate" /\ visited = Retained /\ temp_visited = {} /\ stack = <<>>)

\* C7 witness: the sort returned on a graph where two declarations depend on
\* each other and one depends on itself.
C7_Witness ==
    /\ pc = "separate"
    /\ \E a, b \in Retained : a # b /\ b \in DepsOf(a) /\ a \in DepsOf(b)
    /\ \E n \in Retained : n \in DepsOf(n)

\* d's definition is in the type section and n's in the function section.
TypeOnFunction(d, n) == d \in Range(types) /\ n \in Range(functions)

\* C2 as stated: in the assembled output, for all declarations D and N of
\* either kind with an edge D -> N on no cycle, N's definition stands before
\* D's.
C2_AllKinds ==
    (pc = "done" /\ pass = 1) =>
        \A d, n \in Retained : OffCycle(d, n) => Before(OutputOrder, n, d)

\* C2 amended: in the assembled output, for all declarations D and N with an
\* edge D -> N on no cycle, N's definition stands before D's, unless D's
\* definition is in the type section and N's in the function section.
C2_DependenciesFirstBySection ==
    (pc = "done" /\ pass = 1) =>
        \A d, n \in Retained :
            (OffCycle(d, n) /\ ~TypeOnFunction(d, n)) => Before(OutputOrder, n, d)

\* C2 witness: a file was written where a function's dependency, defined
\* after it in the input, had to move before it, and where a type names a
\* function.
C2_Witness ==
    /\ pc = "done"
    /\ pass = 1
    /\ \E d, n \in Retained :
        /\ OffCycle(d, n)
        /\ d \in Range(functions)
        /\ n \in Range(functions)
        /\ Before(ExtractedNames, d, n)
    /\ \E d, n \in Retained : OffCycle(d, n) /\ TypeOnFunction(d, n)

NoTypeOnFunction == \A d, n \in Retained : DependsOn(d, n) => ~TypeOnFunction(d, n)

\* C4 as stated: with no cycle and no duplicate name, the ordering run on the
\* declaration order it produced yields the same order.
C4_FixedPoint ==
    (pc = "done" /\ pass = 2 /\ Acyclic /\ removed = <<>>) => OutputOrder = first_order

\* C4 amended: with no cycle, no duplicate name and no declaration of the type
\* section depending on one of the function section, the ordering run on the
\* declaration order it produced yields the same order.
C4_FixedPointWithoutTypeOnFunction ==
    (pc = "done" /\ pass = 2 /\ Acyclic /\ removed = <<>> /\ NoTypeOnFunction)
        => OutputOrder = first_order

\* C4 witness: the second run ended on an acyclic document without duplicates
\* and without a type naming a function, whose first run had changed the
\* order of the declarations and which has both sections.
C4_Witness ==
    /\ pc = "done"
    /\ pass = 2
    /\ Acyclic
    /\ removed = <<>>
    /\ NoTypeOnFunction
    /\ first_order # ExtractedNames
    /\ types # <<>>
    /\ \E d, n \in Retained : DependsOn(d, n) /\ d \in Range(functions)

\* The index of the earliest extracted declaration named n.
FirstIndex(n) ==
    CHOOSE i \in 1..Len(extracted_functions) :
        /\ extracted_functions[i].name = n
        /\ \A j \in 1..(i - 1) : extracted_functions[j].name # n

\* C5: after the removal of duplicates the mapping holds each distinct
\* extracted name exactly once, bound to the text of its earliest occurrence;
\* each later occurrence is logged and dropped, and the number reported as
\* removed is the number of extracted entries minus that of distinct names.
C5_KeepsFirstOccurrence ==
    pc \notin {"read", "dedup"} =>
        /\ Retained = Range(ExtractedNames)
        /\ Len(func_order) = Cardinality(Retained)
        /\ Range(func_order) = Retained
        /\ \A n \in Retained : unique_functions[n] = extracted_functions[FirstIndex(n)].def
        /\ Len(removed) = Len(extracted_functions) - Cardinality(Range(ExtractedNames))
        /\ DuplicatesRemoved = Len(removed)

\* C5 witness: a file was written from a document that defines one name twice,
\* with two different texts.
C5_Witness ==
    /\ pc = "done"
    /\ removed # <<>>
    /\ \E i, j \in 1..Len(extracted_functions) :
        /\ i < j
        /\ extracted_functions[i].name = extracted_functions[j].name
        /\ extracted_functions[i].def # extracted_functions[j].def
        /\ extracted_functions[i].def # <<>>

\* The number of line breaks in content[0:pos].
RECURSIVE LineBreaks(_, _)
LineBreaks(s, pos) ==
    IF pos <= 0 THEN 0
    ELSE (IF s[pos] = "\n" THEN 1 ELSE 0) + LineBreaks(s, pos - 1)

\* The input lines that precede the line on which offset pos lies.
LinesBefore(s, pos) == SubSeq(SplitLines(s), 1, LineBreaks(s, pos))

\* C6: the output starts with the header, and the header is exactly the input
\* lines that precede the first extracted declaration, in order and unmodified.
C6_HeaderIsLinesBeforeFirstDeclaration ==
    (pc = "done" /\ extracted_functions # <<>>) =>
        /\ header = JoinWith(<<"\n">>, LinesBefore(content, extracted_functions[1].start))
        /\ HasAt(new_content, 0, header)

\* The entry was extracted by the function pattern.
IsFunctionEntry(e) == FuncMatch(content, e.start).ok

\* The offset of the brace that opens the body block of a function entry.
BlockOpen(e) == FuncMatch(content, e.start).end - 1

\* Opening minus closing braces in content[a:b].
RECURSIVE Depth(_, _, _)
Depth(s, a, b) ==
    IF b <= a THEN 0
    ELSE Depth(s, a, b - 1) + (IF s[b] = "{" THEN 1 ELSE IF s[b] = "}" THEN -1 ELSE 0)

\* The offsets of the closing braces at which the depth counted from the
\* brace at offset open is back to zero.
Closings(s, open) ==
    {i \in (open + 1)..(Len(s) - 1) : s[i + 1] = "}" /\ Depth(s, open, i + 1) = 0}

\* C8: a function header whose block never closes before the end of the text
\* is recorded with a span from the header start to the end of the document.
C8_UnclosedSpansToEnd ==
    pc # "read" =>
        \A i \in 1..Len(extracted_functions) :
            LET e == extracted_functions[i]
            IN  (IsFunctionEntry(e) /\ Closings(content, BlockOpen(e)) = {}) =>
                    /\ e.end = Len(content)
                    /\ e.def = Slice(content, e.start, Len(content))

\* C9: a function header whose block is balanced is recorded with a span from
\* the header start to right after the brace that closes the block opened by
\* the header, wherever else braces stand.
C9_SpanEndsAtBlockClose ==
    pc # "read" =>
        \A i \in 1..Len(extracted_functions) :
            LET e == extracted_functions[i]
                closings == Closings(content, BlockOpen(e))
            IN  (IsFunctionEntry(e) /\ closings # {}) =>
                    \E c \in closings :
                        /\ \A other \in closings : c <= other
                        /\ e.end = c + 1
                        /\ e.def = Slice(content, e.start, c + 1)

\* The maximal runs of word characters of a text.
Words(text) ==
    LET starts == {i \in 1..Len(text) :
                      IsWord(text[i]) /\ (i = 1 \/ ~IsWord(text[i - 1]))}
        last(i) == CHOOSE j \in i..Len(text) :
                      /\ \A k \in i..j : IsWord(text[k])
                      /\ (j = Len(text) \/ ~IsWord(text[j + 1]))
    IN  {SubSeq(text, i, last(i)) : i \in starts}

====
